---- MODULE Spec2Model ----
(***************************************************************************)
(* Verification model of the YouTube AI Assistant Telegram bot:            *)
(*   - bot/rate_limiter.py   RateLimiter (sliding window per user)         *)
(*   - services/cache.py     SessionManager (in-memory cache over SQLite)  *)
(*   - bot/handlers.py, bot/commands.py   the asynchronous update handlers *)
(* Time is an integer clock `now`; one tick is the model's time unit.      *)
(***************************************************************************)
EXTENDS Integers, Sequences, FiniteSets, TLC

(***************************************************************************)
(* Bounds of the model (not program constants).                            *)
(***************************************************************************)
MaxTime == 3
MaxCalls == 4
MaxPuts == 2
MaxUpdates == 3
MaxTextLen == 7
MaxQuestionLen == 3
MaxChunks == 2
MaxUserSteps == 3
MaxLanguageLen == 4

(***************************************************************************)
(* Program constants, scaled to the model's clock.                         *)
(***************************************************************************)
\* Config.MAX_REQUESTS_PER_MINUTE (env-configurable integer)
MAX_REQUESTS_PER_MINUTE == 2
\* RateLimiter.window_minutes, in ticks of the model clock
window_minutes == 2

\* Config.TOKEN_EXPIRY_HOURS, in ticks of the model clock
TOKEN_EXPIRY_HOURS == 2

\* Telegram user ids (update.message.from_user.id)
Users == {101, 202}
\* Chats that send updates to the bot in the handler-level specification, and
\* the handler coroutines that may be in flight at once.
Chats == {101}
Handlers == {1, 2}
Times == 0..MaxTime

\* The dicts handed to save_user_data by _handle_youtube_url: the videos
\* processed, each with its generated summary and its transcript chunks.
\* The n-th save of a run stores the n-th of them.
Videos ==
    <<[summary |-> "summary A", chunks |-> <<"alpha beta">>, url |-> "https://youtu.be/A"],
      [summary |-> "summary B", chunks |-> <<"gamma", "delta">>, url |-> "https://youtu.be/B"],
      [summary |-> "summary C", chunks |-> <<"epsilon", "zeta", "eta">>, url |-> "https://youtu.be/C"]>>
SessionData(n) == Videos[((n - 1) % Len(Videos)) + 1]

VARIABLES
    now,              \* the wall clock read by datetime.now()
    user_requests,    \* RateLimiter.user_requests: user -> sequence of timestamps
    calls,            \* observation: per user, the admission checks made so far,
                      \* each [t |-> instant, ok |-> result of is_allowed]
    in_memory_cache,  \* SessionManager.in_memory_cache: dict user_id -> data
    user_sessions,    \* the rows of the SQLite table user_sessions
    lastOp,           \* observation: the most recent session-store call and its outcome
    lastPut,          \* observation: per user, the last save_user_data that returned
    nput,             \* observation: the number of save_user_data calls so far
    cleared,          \* observation: per user, a delete returned after the last save
    task,             \* per handler coroutine: where it is suspended and its locals
    nupd,             \* the number of updates the transport has delivered so far
    call              \* a call of a pure function: its name, arguments and result

limiterVars == <<user_requests, calls>>
storeVars == <<in_memory_cache, user_sessions, lastOp, lastPut, nput, cleared>>
vars == <<now, user_requests, calls, in_memory_cache, user_sessions, lastOp, lastPut, nput, cleared, task, nupd, call>>

(***************************************************************************)
(* bot/rate_limiter.py                                                     *)
(***************************************************************************)
max_requests == MAX_REQUESTS_PER_MINUTE

\* window_start = now - timedelta(minutes=self.window_minutes)
window_start(t) == t - window_minutes

\* Mutant: old timestamps are never removed.
PruneOld_Never(reqs, t) == reqs

\* [ts for ts in self.user_requests[user_id_str] if ts > window_start]
PruneOld(reqs, t) == SelectSeq(reqs, LAMBDA ts : ts > window_start(t))

\* Mutant: off-by-one comparison with the limit.
LimitReached_OffByOne(reqs) == Len(reqs) > max_requests

\* Mutant: the limit is never reached.
LimitReached_Never(reqs) == FALSE

\* if len(self.user_requests[user_id_str]) >= self.max_requests
LimitReached(reqs) == Len(reqs) >= max_requests

\* Mutant: an allowed attempt is not recorded.
is_allowed_window_NoRecord(reqs, t) == PruneOld(reqs, t)

\* Mutant: a denied attempt is recorded too.
is_allowed_window_RecordsDenied(reqs, t) == Append(PruneOld(reqs, t), t)

\* The window is_allowed leaves behind, and the value it returns.
is_allowed_window(reqs, t) ==
    LET pruned == PruneOld(reqs, t)
    IN  IF LimitReached(pruned) THEN pruned ELSE Append(pruned, t)

\* Mutant: the check allows every request.
is_allowed_result_Always(reqs, t) == TRUE

is_allowed_result(reqs, t) == ~LimitReached(PruneOld(reqs, t))

\* RateLimiter.is_allowed(user_id): one synchronous call (no await inside).
is_allowed(u) ==
    /\ user_requests' = [user_requests EXCEPT ![u] = is_allowed_window(@, now)]
    /\ calls' = [calls EXCEPT ![u] =
                    Append(@, [t |-> now, ok |-> is_allowed_result(user_requests[u], now)])]

\* RateLimiter.get_remaining(user_id)
get_remaining(u) == IF max_requests - Len(user_requests[u]) > 0
                    THEN max_requests - Len(user_requests[u]) ELSE 0

(***************************************************************************)
(* services/cache.py                                                       *)
(***************************************************************************)
\* json.dumps of a list of strings: the JSON text as a sequence of tokens.
RECURSIVE JsonItems(_)
JsonItems(chunks) ==
    IF chunks = <<>> THEN <<>>
    ELSE IF Len(chunks) = 1 THEN <<[k |-> "str", v |-> chunks[1]]>>
    ELSE <<[k |-> "str", v |-> chunks[1]], [k |-> ",", v |-> ""]>> \o JsonItems(Tail(chunks))

JsonDumps(chunks) == <<[k |-> "[", v |-> ""]>> \o JsonItems(chunks) \o <<[k |-> "]", v |-> ""]>>

\* json.loads of such a text: the strings between the brackets, commas skipped.
JsonLoads(toks) ==
    LET inner == SubSeq(toks, 2, Len(toks) - 1)
    IN  [i \in 1..((Len(inner) + 1) \div 2) |-> inner[2 * i - 1].v]

\* dict.get(key, default)
DictGet(d, key, default) == IF key \in DOMAIN d THEN d[key] ELSE default

\* del d[key] / d[key] = value on a dict modelled as a function
DictDel(d, key) == [x \in DOMAIN d \ {key} |-> d[x]]
DictSet(d, key, value) == [x \in DOMAIN d \cup {key} |-> IF x = key THEN value ELSE d[x]]

RowsOf(table, u) == {r \in table : r.user_id = u}

\* Mutant: a plain INSERT into a table without the primary key.
InsertOrReplace_NoReplace(table, row) == table \cup {row}

\* INSERT OR REPLACE INTO user_sessions ... (user_id is the PRIMARY KEY)
InsertOrReplace(table, row) == (table \ RowsOf(table, row.user_id)) \cup {row}

\* The row save_user_data writes; t1, t2, t3 are its three clock readings.
SessionRow(u, data, t1, t2, t3) ==
    [user_id    |-> u,
     summary    |-> DictGet(data, "summary", ""),
     chunks     |-> JsonDumps(DictGet(data, "chunks", <<>>)),
     created_at |-> t2,
     updated_at |-> t3,
     expires_at |-> t1 + TOKEN_EXPIRY_HOURS]

\* save_user_data raises to its caller: never; `except sqlite3.Error` logs
\* the error and stores the data in the cache only.
save_user_data_raises(dbfail) == FALSE

\* SessionManager.save_user_data(user_id, data).  dbfail: sqlite3.Error was
\* raised by the connection, the statement or the commit (nothing committed).
\* The call never raises: the except branch logs and keeps the cache entry.
save_user_data(u, data, t1, t2, t3, dbfail) ==
    /\ in_memory_cache' = DictSet(in_memory_cache, u, data)
    /\ user_sessions' = IF dbfail THEN user_sessions
                        ELSE InsertOrReplace(user_sessions, SessionRow(u, data, t1, t2, t3))

\* SELECT * FROM user_sessions WHERE user_id = ? AND expires_at > ?
SelectLive(table, u, t) == {r \in RowsOf(table, u) : r.expires_at > t}

\* The dict get_user_data builds from a row.
RowData(row) == [summary |-> row.summary, chunks |-> JsonLoads(row.chunks)]

\* The value get_user_data returns, as a set (empty for None): the cache
\* entry if there is one, whatever its age; else the live row, if the query
\* succeeds; else `self.in_memory_cache.get(user_id)`, which is None here.
get_user_data_result(u, t, dbfail) ==
    IF u \in DOMAIN in_memory_cache THEN {in_memory_cache[u]}
    ELSE IF dbfail THEN {}
    ELSE {RowData(r) : r \in SelectLive(user_sessions, u, t)}

\* Mutant: a row read from the table is not cached.
get_user_data_NoCaching(u, t, dbfail) == UNCHANGED <<in_memory_cache, user_sessions>>

\* SessionManager.get_user_data(user_id): a row read from the table is cached.
get_user_data(u, t, dbfail) ==
    /\ in_memory_cache' =
          IF get_user_data_result(u, t, dbfail) = {} THEN in_memory_cache
          ELSE DictSet(in_memory_cache, u,
                       CHOOSE d \in get_user_data_result(u, t, dbfail) : TRUE)
    /\ UNCHANGED user_sessions

\* Mutant: DELETE without the WHERE clause.
DeleteRows_NoWhere(table, u) == {}

\* DELETE FROM user_sessions WHERE user_id = ?
DeleteRows(table, u) == table \ RowsOf(table, u)

\* Mutant: the whole cache is emptied.
delete_cache_Clear(cache, u) == <<>>

\* The store delete_user_data leaves behind (cache, table).  The cache entry
\* is removed only `if user_id in self.in_memory_cache`, so `del` raises no
\* KeyError; sqlite3.Error is caught and logged.
delete_cache(cache, u) == IF u \in DOMAIN cache THEN DictDel(cache, u) ELSE cache
delete_user_data_raises(u, dbfail) == FALSE
delete_table(table, u, dbfail) == IF dbfail THEN table ELSE DeleteRows(table, u)

\* SessionManager.delete_user_data(user_id)
delete_user_data(u, dbfail) ==
    /\ in_memory_cache' = delete_cache(in_memory_cache, u)
    /\ user_sessions' = delete_table(user_sessions, u, dbfail)

\* SessionManager.cleanup_expired_sessions():
\* DELETE FROM user_sessions WHERE expires_at < ?
cleanup_expired_sessions(t, dbfail) ==
    /\ user_sessions' = IF dbfail THEN user_sessions
                        ELSE {r \in user_sessions : ~(r.expires_at < t)}
    /\ UNCHANGED in_memory_cache

(***************************************************************************)
(* Initial state: RateLimiter.__init__, SessionManager.__init__ on an      *)
(* empty database file.                                                    *)
(***************************************************************************)
\* A handler coroutine that is not running.
IdleTask == [pc |-> "idle", user |-> 0, kind |-> "", ok |-> FALSE, seen |-> 0,
             t |-> 0, out |-> "", data |-> {}, llm |-> FALSE]

NoOp == [op |-> "none", user |-> 0, t |-> 0, res |-> {}, dbfail |-> FALSE,
         raised |-> FALSE]

\* No pure-function call is being examined.
NoCall == [fn |-> "none"]

\* The program's objects after construction.
InitProgram ==
    /\ now = 0
    /\ user_requests = [u \in Users |-> <<>>]
    /\ calls = [u \in Users |-> <<>>]
    /\ in_memory_cache = <<>>
    /\ user_sessions = {}
    /\ lastOp = NoOp
    /\ lastPut = [u \in Users |-> {}]
    /\ nput = 0
    /\ cleared = [u \in Users |-> FALSE]
    /\ task = [h \in Handlers |-> IdleTask]
    /\ nupd = 0

Init ==
    /\ InitProgram
    /\ call = NoCall

\* Time passes (datetime.now() is read from a non-decreasing clock).
Tick ==
    /\ now < MaxTime
    /\ now' = now + 1
    /\ lastOp' = NoOp
    /\ UNCHANGED <<limiterVars, in_memory_cache, user_sessions, lastPut, nput, cleared, task, nupd, call>>

\* A direct admission check for user u.
IsAllowedCall(u) ==
    /\ Len(calls[u]) < MaxCalls
    /\ is_allowed(u)
    /\ UNCHANGED <<now, storeVars, task, nupd, call>>

NextLimiter ==
    \/ Tick
    \/ \E u \in Users : IsAllowedCall(u)

SpecLimiter == Init /\ [][NextLimiter]_vars

(***************************************************************************)
(* The session store driven directly: any caller, any order of calls.      *)
(***************************************************************************)
\* The three clock readings of one save_user_data call (lines 59, 71, 72):
\* the clock may tick once during the call, after the first reading.
ClockReadings == {r \in [1..3 -> now..(now + 1)] :
                     r[1] = now /\ r[1] <= r[2] /\ r[2] = r[3] /\ r[3] <= MaxTime}

Put(u) ==
    \E r \in ClockReadings, dbfail \in BOOLEAN :
      LET data == SessionData(nput + 1) IN
        /\ nput < MaxPuts
        /\ nput' = nput + 1
        /\ save_user_data(u, data, r[1], r[2], r[3], dbfail)
        /\ now' = r[3]
        /\ lastOp' = [op |-> "put", user |-> u, t |-> r[1], res |-> {data},
                      dbfail |-> dbfail, raised |-> save_user_data_raises(dbfail)]
        /\ lastPut' = [lastPut EXCEPT ![u] =
                          {[data |-> data, expires |-> r[1] + TOKEN_EXPIRY_HOURS,
                            dbfail |-> dbfail, restarted |-> FALSE,
                            second |-> lastPut[u] # {}]}]
        /\ cleared' = [cleared EXCEPT ![u] = FALSE]
        /\ UNCHANGED <<limiterVars, task, nupd, call>>

Get(u) ==
    \E dbfail \in BOOLEAN :
        /\ get_user_data(u, now, dbfail)
        /\ lastOp' = [op |-> "get", user |-> u, t |-> now,
                      res |-> get_user_data_result(u, now, dbfail),
                      dbfail |-> dbfail /\ u \notin DOMAIN in_memory_cache,
                      raised |-> FALSE]
        /\ UNCHANGED <<now, limiterVars, lastPut, nput, cleared, task, nupd, call>>

Delete(u) ==
    \E dbfail \in BOOLEAN :
        /\ delete_user_data(u, dbfail)
        /\ lastOp' = [op |-> "delete", user |-> u, t |-> now, res |-> {},
                      dbfail |-> dbfail, raised |-> delete_user_data_raises(u, dbfail)]
        /\ cleared' = [cleared EXCEPT ![u] = TRUE]
        /\ UNCHANGED <<now, limiterVars, lastPut, nput, task, nupd, call>>

Sweep ==
    \E dbfail \in BOOLEAN :
        /\ cleanup_expired_sessions(now, dbfail)
        /\ lastOp' = [op |-> "sweep", user |-> 0, t |-> now, res |-> {},
                      dbfail |-> dbfail, raised |-> FALSE]
        /\ UNCHANGED <<now, limiterVars, lastPut, nput, cleared, task, nupd, call>>

\* The process is restarted: module-level singletons are rebuilt (empty
\* cache, empty rate windows); the database file is kept.
Restart ==
    /\ in_memory_cache' = <<>>
    /\ user_requests' = [u \in Users |-> <<>>]
    /\ lastOp' = [NoOp EXCEPT !.op = "restart"]
    /\ lastPut' = [u \in Users |-> {[p EXCEPT !.restarted = TRUE] : p \in lastPut[u]}]
    /\ UNCHANGED <<now, calls, user_sessions, nput, cleared, task, nupd, call>>

NextStore ==
    \/ Tick
    \/ \E u \in Users : Put(u)
    \/ \E u \in Users : Get(u)
    \/ \E u \in Users : Delete(u)
    \/ Sweep
    \/ Restart

SpecStore == Init /\ [][NextStore]_vars

(***************************************************************************)
(* The rate limiter and the session store used side by side by several     *)
(* users; the clock advances while sessions are saved.                      *)
(***************************************************************************)
\* str(user_id), the key of a user's rate window: the decimal digits.
Digit(d) == <<"0", "1", "2", "3", "4", "5", "6", "7", "8", "9">>[d + 1]

RECURSIVE str_of_int(_)
str_of_int(n) ==
    IF n < 10 THEN <<Digit(n)>> ELSE str_of_int(n \div 10) \o <<Digit(n % 10)>>

\* The admission checks and the puts made so far.
UserSteps ==
    Cardinality({<<v, i>> \in Users \X (1..MaxCalls) : i \in DOMAIN calls[v]}) + nput

\* An admission check for user u.
UserCheck(u) == UserSteps < MaxUserSteps /\ IsAllowedCall(u)

\* A put for user u.
UserPut(u) == UserSteps < MaxUserSteps /\ Put(u)

NextUsers ==
    \/ \E u \in Users : UserCheck(u)
    \/ \E u \in Users : UserPut(u)
    \/ \E u \in Users : Get(u)
    \/ \E u \in Users : Delete(u)

SpecUsers == Init /\ [][NextUsers]_vars

(***************************************************************************)
(* bot/handlers.py, bot/commands.py: the update handlers.  Each handler is *)
(* a coroutine; the code between two awaits runs as one step, and the      *)
(* event loop may run another handler at every await.                      *)
(***************************************************************************)
observed == <<calls, lastOp, lastPut, cleared>>

\* The branches of handle_message: a YouTube URL, a translation request, or
\* any other text (a question).
MessageKinds == {"url", "translate", "qa"}

\* The transport delivers an update and the application starts a handler
\* coroutine for it (in the lowest free slot).
Dispatch(h) ==
    /\ task[h].pc = "idle"
    /\ \A g \in Handlers : g < h => task[g].pc # "idle"
    /\ nupd < MaxUpdates
    /\ nupd' = nupd + 1

\* handle_message up to and including check_rate_limit(user_id): there is no
\* await between the start of the handler and the end of is_allowed.
check_rate_limit(h, u, kind) ==
    /\ Dispatch(h)
    /\ user_requests' = [user_requests EXCEPT ![u] = is_allowed_window(@, now)]

\* The handler's locals after the check: whether it was allowed, and how many
\* live timestamps the check counted.
Admitted(u, kind) ==
    [IdleTask EXCEPT !.user = u, !.kind = kind, !.t = now,
                     !.ok = is_allowed_result(user_requests[u], now),
                     !.seen = Len(PruneOld(user_requests[u], now))]

\* handle_message, check_rate_limit raises RateLimitError: the handler awaits
\* the reply of its `except RateLimitError` branch.
MessageDenied(h, u, kind) ==
    /\ check_rate_limit(h, u, kind)
    /\ ~is_allowed_result(user_requests[u], now)
    /\ task' = [task EXCEPT ![h] =
                   [Admitted(u, kind) EXCEPT !.pc = "reply", !.out = "rate_limited"]]
    /\ UNCHANGED <<now, in_memory_cache, user_sessions, nput, observed, call>>

\* handle_message -> _handle_youtube_url, up to `await reply_text("Processing video...")`.
UrlAccepted(h, u) ==
    /\ check_rate_limit(h, u, "url")
    /\ is_allowed_result(user_requests[u], now)
    /\ nput + Cardinality({g \in Handlers : task[g].pc = "processing"}) < MaxPuts
    /\ task' = [task EXCEPT ![h] = [Admitted(u, "url") EXCEPT !.pc = "processing"]]
    /\ UNCHANGED <<now, in_memory_cache, user_sessions, nput, observed, call>>

\* Mutant: the session is saved as soon as the transcript is fetched.
url_saves_BeforeSummary(fetched, generated) == fetched

\* _handle_youtube_url reaches save_user_data only when process_youtube_video
\* and generate_summary have both returned (each raises on failure).
url_saves(fetched, generated) == fetched /\ generated

\* The reply _handle_youtube_url ends with.
url_outcome(fetched, generated) ==
    IF ~fetched THEN "transcript_error"
    ELSE IF ~generated THEN "model_error"
    ELSE "summary"

\* _handle_youtube_url resumed: process_youtube_video, generate_summary and
\* save_user_data run without an await, then the handler awaits edit_text
\* (or the reply of an except branch).  generate_summary calls ask_llm once
\* the transcript is there.
ProcessVideo(h) ==
    /\ task[h].pc = "processing"
    /\ \E fetched, generated, dbfail \in BOOLEAN, r \in ClockReadings :
          /\ task' = [task EXCEPT ![h].pc = "reply", ![h].llm = fetched,
                                  ![h].out = url_outcome(fetched, generated)]
          /\ IF url_saves(fetched, generated)
             THEN /\ save_user_data(task[h].user, SessionData(nput + 1),
                                    r[1], r[2], r[3], dbfail)
                  /\ nput' = nput + 1
                  /\ now' = r[3]
             ELSE UNCHANGED <<now, in_memory_cache, user_sessions, nput>>
    /\ UNCHANGED <<user_requests, observed, nupd, call>>

\* handle_message -> _handle_translation_request, up to
\* `await reply_text("Translating ...")`, or to the reply that there is no
\* session or no language in the text.
TranslationRequest(h, u) ==
    /\ check_rate_limit(h, u, "translate")
    /\ is_allowed_result(user_requests[u], now)
    /\ \E dbfail, no_language \in BOOLEAN :
          /\ get_user_data(u, now, dbfail)
          /\ task' = [task EXCEPT ![h] =
                IF get_user_data_result(u, now, dbfail) = {}
                THEN [Admitted(u, "translate") EXCEPT !.pc = "reply", !.out = "no_session"]
                ELSE IF no_language
                THEN [Admitted(u, "translate") EXCEPT !.pc = "reply", !.out = "no_language"]
                ELSE [Admitted(u, "translate") EXCEPT
                         !.pc = "translating",
                         !.data = get_user_data_result(u, now, dbfail)]]
    /\ UNCHANGED <<now, nput, observed, call>>

\* _handle_translation_request resumed: translate(data["summary"], language)
\* raises without calling ask_llm when the summary is empty, else it calls
\* ask_llm; then the handler awaits edit_text (or the error reply).
Translate(h) ==
    /\ task[h].pc = "translating"
    /\ \E generated \in BOOLEAN :
          LET text == (CHOOSE d \in task[h].data : TRUE).summary IN
          task' = [task EXCEPT
                      ![h].pc = "reply", ![h].data = {},
                      ![h].llm = (text # ""),
                      ![h].out = IF text # "" /\ generated THEN "translation"
                                 ELSE "translation_error"]
    /\ UNCHANGED <<now, user_requests, in_memory_cache, user_sessions, nput, observed, nupd, call>>

\* Mutant: _handle_qa_request without its `if not data` check.
qa_outcome_NoSessionCheck(res, empty_question, relevant, generated) ==
    IF empty_question THEN "invalid_question"
    ELSE IF ~relevant THEN "not_covered"
    ELSE IF generated THEN "answer"
    ELSE "qa_error"

\* The reply _handle_qa_request ends with.  answer_question returns a fixed
\* text when the session has no chunks or when _find_relevant_chunk finds
\* none with a positive score; otherwise it calls ask_llm.
qa_outcome(res, empty_question, relevant, generated) ==
    IF res = {} THEN "no_session"
    ELSE IF empty_question THEN "invalid_question"
    ELSE IF (CHOOSE d \in res : TRUE).chunks = <<>> THEN "no_transcript"
    ELSE IF ~relevant THEN "not_covered"
    ELSE IF generated THEN "answer"
    ELSE "qa_error"

\* handle_message -> _handle_qa_request, up to its reply: get_user_data and
\* answer_question run without an await.
QaRequest(h, u) ==
    /\ check_rate_limit(h, u, "qa")
    /\ is_allowed_result(user_requests[u], now)
    /\ \E dbfail, empty_question, relevant, generated \in BOOLEAN :
          LET out == qa_outcome(get_user_data_result(u, now, dbfail),
                                empty_question, relevant, generated) IN
          /\ get_user_data(u, now, dbfail)
          /\ task' = [task EXCEPT ![h] =
                [Admitted(u, "qa") EXCEPT
                    !.pc = "reply", !.out = out,
                    !.llm = (out \in {"answer", "qa_error"})]]
    /\ UNCHANGED <<now, nput, observed, call>>

\* The reply summary_command ends with: `if not data or not data.get("summary")`.
summary_outcome(res) ==
    IF res = {} THEN "no_session"
    ELSE IF DictGet(CHOOSE d \in res : TRUE, "summary", "") = "" THEN "no_session"
    ELSE "summary_shown"

\* summary_command: get_user_data, then the reply (no rate-limit check).
SummaryCommand(h, u) ==
    /\ Dispatch(h)
    /\ \E dbfail \in BOOLEAN :
          /\ get_user_data(u, now, dbfail)
          /\ task' = [task EXCEPT ![h] =
                [IdleTask EXCEPT
                    !.pc = "reply", !.user = u, !.kind = "/summary", !.t = now,
                    !.out = summary_outcome(get_user_data_result(u, now, dbfail))]]
    /\ UNCHANGED <<now, user_requests, nput, observed, call>>

\* clear_command: delete_user_data, then the reply (no rate-limit check).
ClearCommand(h, u) ==
    /\ Dispatch(h)
    /\ \E dbfail \in BOOLEAN : delete_user_data(u, dbfail)
    /\ task' = [task EXCEPT ![h] =
                   [IdleTask EXCEPT !.pc = "reply", !.user = u, !.kind = "/clear",
                                    !.t = now, !.out = "cleared"]]
    /\ UNCHANGED <<now, user_requests, nput, observed, call>>

\* The awaited reply_text / edit_text completes and the handler returns.
Reply(h) ==
    /\ task[h].pc = "reply"
    /\ task' = [task EXCEPT ![h] = IdleTask]
    /\ UNCHANGED <<now, user_requests, in_memory_cache, user_sessions, nput, observed, nupd, call>>

Next ==
    \/ Tick
    \/ \E h \in Handlers, u \in Chats, kind \in MessageKinds :
          MessageDenied(h, u, kind)
    \/ \E h \in Handlers, u \in Chats : UrlAccepted(h, u)
    \/ \E h \in Handlers : ProcessVideo(h)
    \/ \E h \in Handlers, u \in Chats : TranslationRequest(h, u)
    \/ \E h \in Handlers : Translate(h)
    \/ \E h \in Handlers, u \in Chats : QaRequest(h, u)
    \/ \E h \in Handlers, u \in Chats : SummaryCommand(h, u)
    \/ \E h \in Handlers, u \in Chats : ClearCommand(h, u)
    \/ \E h \in Handlers : Reply(h)

Spec == Init /\ [][Next]_vars

(***************************************************************************)
(* Rate limiter claims (checked under SpecLimiter)                         *)
(***************************************************************************)
\* The instant ts lies inside the trailing window (t - window, t] as of t.
InWindow(ts, t) == t - ts < window_minutes

LastCall(u) == calls[u][Len(calls[u])]

\* The allowed checks of u whose instants lie in the set of instants S.
AllowedIn(u, S) == {i \in DOMAIN calls[u] : calls[u][i].ok /\ calls[u][i].t \in S}

\* C1: every admission check first drops the timestamps that are no longer
\* inside the window; if at least max_requests remain it returns not-allowed
\* and records nothing, otherwise it appends the current instant and returns
\* allowed.
C1_AdmissionCheckContract ==
    [][\A u \in Users :
         Len(calls'[u]) = Len(calls[u]) + 1 =>
           LET kept == SelectSeq(user_requests[u], LAMBDA ts : InWindow(ts, now))
               res  == calls'[u][Len(calls'[u])].ok
           IN  /\ res = (Len(kept) < MAX_REQUESTS_PER_MINUTE)
               /\ ~res => user_requests'[u] = kept
               /\ res => user_requests'[u] = Append(kept, now)]_vars

\* C1 witness: a user was denied at one check and admitted at a later one,
\* after the saturated window had been pruned.
C1_Witness ==
    \E u \in Users : \E i, j \in DOMAIN calls[u] :
        /\ i < j /\ ~calls[u][i].ok /\ calls[u][j].ok
        /\ Len(user_requests[u]) = 1

\* C2 (as claimed): in any closed interval [a, a + window] of instants the
\* number of allowed checks of one user never exceeds max_requests.
C2_ClosedIntervalBudget ==
    \A u \in Users : \A a \in Times :
        Cardinality(AllowedIn(u, a..(a + window_minutes))) <= MAX_REQUESTS_PER_MINUTE

\* C2 (amended): in any half-open interval [a, a + window) of instants the
\* number of allowed checks of one user never exceeds max_requests.
C2_HalfOpenIntervalBudget ==
    \A u \in Users : \A a \in Times :
        Cardinality(AllowedIn(u, a..(a + window_minutes - 1))) <= MAX_REQUESTS_PER_MINUTE

\* C2 witness: a user used the whole budget of one window, was denied inside
\* it, and was admitted again in a later window.
C2_Witness ==
    \E u \in Users : \E a \in Times :
        /\ Cardinality(AllowedIn(u, a..(a + window_minutes - 1))) = MAX_REQUESTS_PER_MINUTE
        /\ \E i \in DOMAIN calls[u] :
              ~calls[u][i].ok /\ calls[u][i].t \in a..(a + window_minutes - 1)
        /\ AllowedIn(u, (a + window_minutes)..MaxTime) # {}

\* C3: for a check at instant t whose earlier checks were all made either at
\* t itself or more than a window before t: it is allowed exactly when fewer
\* than max_requests earlier checks were made at t.  (The first max_requests
\* checks of an instant are allowed, the next is denied, and a check made
\* more than a window after the last one is allowed again.)
C3_BoundaryAndRecovery ==
    \A u \in Users : \A i \in DOMAIN calls[u] :
        LET t == calls[u][i].t
            same == {j \in 1..(i - 1) : calls[u][j].t = t}
        IN  (\A j \in 1..(i - 1) :
                calls[u][j].t = t \/ t - calls[u][j].t > window_minutes)
            => (calls[u][i].ok <=> Cardinality(same) < MAX_REQUESTS_PER_MINUTE)

\* C3 witness: max_requests checks at one instant were allowed, the next one
\* at that instant was denied, and the first check more than a window later
\* was allowed.
C3_Witness ==
    \E u \in Users :
        /\ Len(calls[u]) = MAX_REQUESTS_PER_MINUTE + 2
        /\ \A i \in 1..MAX_REQUESTS_PER_MINUTE :
              calls[u][i].ok /\ calls[u][i].t = calls[u][1].t
        /\ LET d == calls[u][MAX_REQUESTS_PER_MINUTE + 1]
               r == calls[u][MAX_REQUESTS_PER_MINUTE + 2]
           IN  /\ ~d.ok /\ d.t = calls[u][1].t
               /\ r.ok /\ r.t - d.t > window_minutes

(***************************************************************************)
(* Concurrent handlers (checked under Spec)                                *)
(***************************************************************************)
\* Handlers h and g are both in flight, for the same user, and both ran the
\* admission check at the same instant.
Concurrent(h, g) ==
    /\ h # g
    /\ task[h].pc # "idle" /\ task[g].pc # "idle"
    /\ task[h].kind \in MessageKinds /\ task[g].kind \in MessageKinds
    /\ task[h].user = task[g].user
    /\ task[h].t = task[g].t

\* C4: the check and the append of is_allowed are one atomic step, so two
\* handlers running concurrently for the same user never both take the same
\* slot: an allowed handler counted fewer than max_requests live timestamps,
\* and two concurrent allowed handlers counted different numbers.  With
\* exactly one slot left (max_requests - 1 counted) at most one is allowed.
C4_ConcurrentChecksTakeDistinctSlots ==
    \A h \in Handlers :
        /\ (task[h].pc # "idle" /\ task[h].ok) => task[h].seen < max_requests
        /\ \A g \in Handlers :
              (Concurrent(h, g) /\ task[h].ok /\ task[g].ok)
                  => task[h].seen # task[g].seen

\* Two handlers in flight for one user at one instant with one slot left:
\* one took it, the other was denied.
C4_Witness ==
    \E h, g \in Handlers :
        /\ Concurrent(h, g)
        /\ task[h].ok /\ task[h].seen = max_requests - 1
        /\ ~task[g].ok /\ task[g].out = "rate_limited"
        /\ task[g].seen = max_requests

(***************************************************************************)
(* Session store claims (checked under SpecStore)                          *)
(***************************************************************************)
\* The data d holds the summary and the segment sequence of the saved data p.
SameSession(d, p) == d.summary = p.summary /\ d.chunks = p.chunks

\* The user has no session: no cache entry and no row in the table.
NoSession(u) == u \notin DOMAIN in_memory_cache /\ RowsOf(user_sessions, u) = {}

\* C5: get returns a session only while now < expiresAt of the last put of
\* that user, also when it is served from the in-process cache; so after a
\* put and a time advance beyond the TTL, get returns absent.
C5_GetOnlyBeforeExpiry ==
    (lastOp.op = "get" /\ lastOp.res # {}) =>
        \E p \in lastPut[lastOp.user] : lastOp.t < p.expires

\* C6: a put whose durable write failed does not return normally: whenever
\* put has returned without raising, the table holds the session it was
\* given (it is never left in the cache only).
C6_WriteFailureSignalled ==
    (lastOp.op = "put" /\ ~lastOp.raised) =>
        /\ ~lastOp.dbfail
        /\ \E r \in RowsOf(user_sessions, lastOp.user) :
              \A d \in lastOp.res : SameSession(RowData(r), d)

\* C7: after a put has returned, a restart, and before the session expires
\* (and with no delete in between), a get whose read succeeds returns the
\* summary and the segment sequence of that put.
C7_SurvivesRestart ==
    (lastOp.op = "get" /\ ~lastOp.dbfail /\ ~cleared[lastOp.user]) =>
        \A p \in lastPut[lastOp.user] :
            (p.restarted /\ lastOp.t < p.expires) =>
                \E d \in lastOp.res : SameSession(d, p.data)

\* C8: after the second put for a user there is exactly one session for that
\* user in the cache and in the table, and both hold the second put's
\* summary and segments.
C8_SecondPutReplaces ==
    (lastOp.op = "put" /\ \E p \in lastPut[lastOp.user] : p.second) =>
        \A d \in lastOp.res :
            /\ lastOp.user \in DOMAIN in_memory_cache
            /\ in_memory_cache[lastOp.user] = d
            /\ Cardinality(RowsOf(user_sessions, lastOp.user)) = 1
            /\ \A r \in RowsOf(user_sessions, lastOp.user) : SameSession(RowData(r), d)

\* C9: after delete(user) has returned and until the next put(user), every
\* get(user) returns absent, whether or not the DELETE statement failed.
C9_DeletedStaysAbsent ==
    (lastOp.op = "get" /\ cleared[lastOp.user]) => lastOp.res = {}

C11_CacheMatchesLiveRow ==
    \A u \in Users :
        u \in DOMAIN in_memory_cache =>
            \A r \in SelectLive(user_sessions, u, now) :
                SameSession(in_memory_cache[u], RowData(r))

(***************************************************************************)
(* Request flow claims (checked under Spec)                                *)
(***************************************************************************)
\* Handler h resumes from "Processing video..." in this step and ends with
\* one of the replies in outs.
ProcessingEnds(h, outs) ==
    /\ task[h].pc = "processing"
    /\ task'[h].pc = "reply"
    /\ task'[h].out \in outs

\* C12: a session is written only by a source-processing request that
\* succeeded: a request whose transcript fetch or summary generation fails
\* calls no save and leaves cache and table as they were, and every step
\* that saves or adds a row is the step of a request ending with its summary.
C12_OnlySuccessfulProcessingWrites ==
    [][/\ \A h \in Handlers :
            ProcessingEnds(h, {"transcript_error", "model_error"}) =>
                /\ nput' = nput
                /\ in_memory_cache' = in_memory_cache
                /\ user_sessions' = user_sessions
       /\ (nput' # nput \/ user_sessions' \ user_sessions # {}) =>
            \E h \in Handlers : ProcessingEnds(h, {"summary"})]_vars

\* C12 witness: a request failed at the summary generation, after the
\* transcript was fetched, while its user had a session from an earlier
\* request; that session is still cached and stored.
C12_Witness ==
    \E h \in Handlers :
        /\ task[h].pc = "reply" /\ task[h].out = "model_error" /\ task[h].llm
        /\ nput = 1
        /\ task[h].user \in DOMAIN in_memory_cache
        /\ SameSession(in_memory_cache[task[h].user], SessionData(1))
        /\ \E r \in RowsOf(user_sessions, task[h].user) :
              SameSession(RowData(r), SessionData(1))

\* get_user_data(u) returns None now, whether or not the table can be read.
NoVisibleSession(u) == get_user_data_result(u, now, FALSE) = {}

\* Handler h starts in this step with an admitted message of the given kinds.
AdmittedStart(h, kinds) ==
    /\ task[h].pc = "idle"
    /\ task'[h].pc # "idle"
    /\ task'[h].kind \in kinds
    /\ task'[h].ok

StartsWork(h) ==
    /\ task[h].pc = "idle"
    /\ task'[h].pc # "idle"
    /\ task'[h].out # "rate_limited"

\* C14: every inbound request, text message or command, passes the admission
\* check before any session-store access, transcript fetch or generation
\* call is made for it: a handler that goes on to work was allowed by
\* is_allowed, which recorded the request in the user's window.
C14_AdmissionBeforeAnyWork ==
    [][\A h \in Handlers :
          StartsWork(h) =>
              LET u == task'[h].user IN
              /\ is_allowed_result(user_requests[u], now)
              /\ user_requests'[u] = is_allowed_window(user_requests[u], now)]_vars

\* The window of user u holds max_requests timestamps younger than the
\* window: an admission check made now is denied.
WindowFull(u) == Len(PruneOld(user_requests[u], now)) >= max_requests

\* C15: a text message denied by the admission check is rejected with the
\* rate-limit reply (the RateLimitError branch, not another failure reply);
\* no source processing, question or translation handler runs for it (no
\* store access, no generation call), and the session store is unchanged.
C15_DeniedMessageOnlyRateLimited ==
    /\ [][\A h \in Handlers :
            (/\ task[h].pc = "idle" /\ task'[h].pc # "idle"
             /\ task'[h].kind \in MessageKinds
             /\ WindowFull(task'[h].user)) =>
                /\ task'[h].pc = "reply"
                /\ task'[h].out = "rate_limited"
                /\ ~task'[h].ok /\ ~task'[h].llm /\ task'[h].data = {}
                /\ in_memory_cache' = in_memory_cache
                /\ user_sessions' = user_sessions
                /\ nput' = nput
                /\ user_requests' = user_requests]_vars
    /\ [](\A h \in Handlers :
            task[h].out = "rate_limited" =>
                /\ task[h].pc = "reply" /\ task[h].kind \in MessageKinds
                /\ ~task[h].ok /\ ~task[h].llm)

\* C15 witness: a message of a user with a saved session was denied: the
\* handler is at the rate-limit reply with the window full, and the session
\* is still cached and stored.
C15_Witness ==
    \E h \in Handlers :
        /\ task[h].pc = "reply" /\ task[h].out = "rate_limited"
        /\ task[h].seen = max_requests
        /\ WindowFull(task[h].user)
        /\ task[h].user \in DOMAIN in_memory_cache
        /\ RowsOf(user_sessions, task[h].user) # {}

(***************************************************************************)
(* core/chunking.py.  A str is a sequence of characters; a list of str is  *)
(* a sequence of such sequences.                                           *)
(***************************************************************************)
\* The characters of the transcripts examined, and what str.split() and
\* str.strip() treat as whitespace.
Alphabet == {"a", "b", " "}
Whitespace == {" "}

\* The texts handed to chunk_text, and the (chunk_size, overlap) arguments.
Texts == UNION {[1..n -> Alphabet] : n \in 0..MaxTextLen}
ChunkSizes == -1..3
Overlaps == -1..3

\* text.split(): the maximal runs of non-whitespace characters, in order.
RECURSIVE SplitAcc(_, _, _)
SplitAcc(s, word, words) ==
    IF s = <<>> THEN (IF word = <<>> THEN words ELSE Append(words, word))
    ELSE IF Head(s) \in Whitespace
         THEN SplitAcc(Tail(s), <<>>, IF word = <<>> THEN words ELSE Append(words, word))
         ELSE SplitAcc(Tail(s), Append(word, Head(s)), words)

str_split(s) == SplitAcc(s, <<>>, <<>>)

\* " ".join(words)
RECURSIVE str_join(_)
str_join(words) ==
    IF words = <<>> THEN <<>>
    ELSE IF Len(words) = 1 THEN words[1]
    ELSE words[1] \o <<" ">> \o str_join(Tail(words))

\* Mutant: the slice loses its last word.
Slice_Exclusive(words, i, j) ==
    SubSeq(words, i + 1, (IF j < Len(words) THEN j ELSE Len(words)) - 1)

\* words[i:j] for 0 <= i: a negative j counts from the end, and both ends
\* are clamped to the list.
Slice(words, i, j) ==
    LET n == Len(words)
        stop == IF j < 0 THEN (IF j + n < 0 THEN 0 ELSE j + n)
                ELSE IF j > n THEN n ELSE j
    IN  SubSeq(words, i + 1, stop)

\* list(range(0, n, step)) for step > 0
Range(n, step) == [k \in 1..((n + step - 1) \div step) |-> (k - 1) * step]

\* chunk.strip() is not empty
StripsNonEmpty(chunk) == \E i \in DOMAIN chunk : chunk[i] \notin Whitespace

\* The loop of chunk_text over range(0, len(words), step), step > 0.
ChunkWindows(words, chunk_size, step) ==
    LET starts == Range(Len(words), step)
        all == [k \in DOMAIN starts |->
                   str_join(Slice(words, starts[k], starts[k] + chunk_size))]
    IN  SelectSeq(all, StripsNonEmpty)

\* How many times the body of `for i in range(0, len(words), step)` runs in a
\* call: not at all on an early return, for a zero step (range() raises) and
\* for a negative step (the range is empty), else once per start index.
loop_iterations(text, chunk_size, overlap) ==
    LET words == str_split(text)
        step == chunk_size - overlap
    IN  IF text = <<>> \/ Len(words) < chunk_size \/ step <= 0 THEN 0
        ELSE Len(Range(Len(words), step))

\* chunk_text raises to its caller: never; the function body is inside
\* `try: ... except Exception`, which returns [text].
chunk_text_raises(text, chunk_size, overlap) == FALSE

\* Mutant: a zero step is answered with no segments at all.
chunk_text_EmptyOnFailure(text, chunk_size, overlap) ==
    LET words == str_split(text)
        step == chunk_size - overlap
    IN  IF text = <<>> THEN <<>>
        ELSE IF Len(words) < chunk_size THEN <<text>>
        ELSE IF step <= 0 THEN <<>>
        ELSE ChunkWindows(words, chunk_size, step)

\* Mutant: a short text is returned with its whitespace normalised.
chunk_text_Normalised(text, chunk_size, overlap) ==
    LET words == str_split(text)
        step == chunk_size - overlap
    IN  IF text = <<>> THEN <<>>
        ELSE IF Len(words) < chunk_size THEN <<str_join(words)>>
        ELSE IF step = 0 THEN <<text>>
        ELSE IF step < 0 THEN <<>>
        ELSE ChunkWindows(words, chunk_size, step)

\* chunk_text(text, chunk_size, overlap).  range() raises ValueError for a
\* step of zero, which the except branch turns into [text]; for a negative
\* step the range is empty.
chunk_text(text, chunk_size, overlap) ==
    LET words == str_split(text)
        step == chunk_size - overlap
    IN  IF text = <<>> THEN <<>>
        ELSE IF Len(words) < chunk_size THEN <<text>>
        ELSE IF step = 0 THEN <<text>>
        ELSE IF step < 0 THEN <<>>
        ELSE ChunkWindows(words, chunk_size, step)

\* A call of chunk_text is about to be made: one per text and argument pair.
InitChunk ==
    /\ InitProgram
    /\ \E t \in Texts, s \in ChunkSizes, o \in Overlaps :
          call = [fn |-> "chunk_text", text |-> t, chunk_size |-> s, overlap |-> o,
                  done |-> FALSE, raised |-> FALSE, ret |-> <<>>]

\* The call returns.
ChunkText ==
    /\ call.fn = "chunk_text"
    /\ ~call.done
    /\ call' = [call EXCEPT
                   !.done = TRUE,
                   !.raised = chunk_text_raises(call.text, call.chunk_size, call.overlap),
                   !.ret = chunk_text(call.text, call.chunk_size, call.overlap)]
    /\ UNCHANGED <<now, user_requests, calls, in_memory_cache, user_sessions,
                   lastOp, lastPut, nput, cleared, task, nupd>>

NextChunk == ChunkText

SpecChunk == InitChunk /\ [][NextChunk]_vars

(***************************************************************************)
(* Segmenter claims (checked under SpecChunk)                              *)
(***************************************************************************)
\* The number of words of the text of the call.
WordCount == Len(str_split(call.text))

\* C16 as stated: for every text with fewer words than chunk_size, the text
\* with zero words included, chunk_text returns exactly [text].
C16_ShortTextReturnedWhole ==
    (call.done /\ WordCount < call.chunk_size) => call.ret = <<call.text>>

\* C16 amended: for every non-empty text with fewer words than chunk_size
\* (whitespace-only texts, which have zero words, included) chunk_text
\* returns exactly [text], unmodified; for the empty text it returns [].
C16_NonEmptyShortTextReturnedWhole ==
    (call.done /\ WordCount < call.chunk_size) =>
        call.ret = IF call.text = <<>> THEN <<>> ELSE <<call.text>>

\* C16 witness: a text of one word with blanks before and after it came
\* back as the single segment, blanks kept.
C16_Witness ==
    /\ call.done
    /\ WordCount = 1 /\ WordCount < call.chunk_size
    /\ Len(call.text) >= 3
    /\ call.text[1] = " " /\ call.text[Len(call.text)] = " "
    /\ call.ret = <<call.text>>

\* ceil(a / b) for a >= 0, b > 0
CeilDiv(a, b) == (a + b - 1) \div b

\* The call has a segment size and an overlap (a positive and a non-negative
\* number), at least chunk_size words and a positive step.
LongText ==
    /\ call.chunk_size > 0 /\ call.overlap >= 0
    /\ WordCount >= call.chunk_size /\ call.overlap < call.chunk_size

\* C17: for a text of N >= chunk_size words and step = chunk_size - overlap
\* > 0, chunk_text returns ceil(max(0, N - chunk_size) / step) + 1 segments.
C17_SegmentCount ==
    (call.done /\ LongText) =>
        Len(call.ret) =
            CeilDiv(WordCount - call.chunk_size, call.chunk_size - call.overlap) + 1

\* The words of the call's text at the 0-based indices [lo, hi).
WordsAt(lo, hi) == [k \in 1..(hi - lo) |-> str_split(call.text)[lo + k]]

\* The 0-based word indices [lo, hi) the j-th segment (0-based) is to hold.
SegmentLo(j) == j * (call.chunk_size - call.overlap)
SegmentHi(j) ==
    IF SegmentLo(j) + call.chunk_size < WordCount
    THEN SegmentLo(j) + call.chunk_size ELSE WordCount

\* C18: for a text of N >= chunk_size words and overlap < chunk_size, the
\* j-th segment is exactly the words at [j*step, min(N, j*step + chunk_size))
\* joined by single spaces; every word index in [0, N) lies in at least one
\* segment; and segments shorter than chunk_size come only at the end.
C18_SegmentsAreWordWindows ==
    (call.done /\ LongText) =>
        LET n == Len(call.ret) IN
        /\ \A j \in 0..(n - 1) :
              /\ SegmentLo(j) < WordCount
              /\ call.ret[j + 1] = str_join(WordsAt(SegmentLo(j), SegmentHi(j)))
        /\ \A i \in 0..(WordCount - 1) :
              \E j \in 0..(n - 1) : SegmentLo(j) <= i /\ i < SegmentHi(j)
        /\ \A j, k \in 0..(n - 1) :
              (j < k /\ SegmentHi(j) - SegmentLo(j) < call.chunk_size)
                  => SegmentHi(k) - SegmentLo(k) < call.chunk_size

\* C18 witness: a text with blanks to normalise was cut into at least three
\* overlapping windows, the first full, the last shorter than chunk_size.
C18_Witness ==
    /\ call.done /\ LongText
    /\ call.overlap >= 1
    /\ Len(call.ret) >= 3
    /\ call.text # str_join(str_split(call.text))
    /\ Len(str_split(call.ret[1])) = call.chunk_size
    /\ Len(str_split(call.ret[Len(call.ret)])) < call.chunk_size

(***************************************************************************)
(* core/qa_engine.py: _find_relevant_chunk                                 *)
(***************************************************************************)
\* The characters of the questions examined.
QuestionAlphabet == {"a", "b", "A", " "}

\* The questions and the chunk lists handed to _find_relevant_chunk.
Questions == UNION {[1..n -> QuestionAlphabet] : n \in 0..MaxQuestionLen}
Segments ==
    {<<"a">>, <<"a", "b">>, <<"b", " ", "a">>, <<"A", " ", "b", "a">>, <<"b", "b">>}
ChunkLists == UNION {[1..n -> Segments] : n \in 0..MaxChunks}

\* str.lower()
LowerChar(c) ==
    IF c = "A" THEN "a" ELSE IF c = "B" THEN "b"
    ELSE IF c = "S" THEN "s" ELSE IF c = "I" THEN "i" ELSE IF c = "N" THEN "n"
    ELSE c
str_lower(s) == [i \in DOMAIN s |-> LowerChar(s[i])]

\* keyword in chunk_lower (substring test; the empty string is in every str)
str_contains(s, sub) ==
    \E i \in 0..(Len(s) - Len(sub)) : SubSeq(s, i + 1, i + Len(sub)) = sub

\* sum(1 for keyword in keywords if keyword in chunk_lower)
keyword_score(keywords, chunk) ==
    Cardinality({i \in DOMAIN keywords : str_contains(str_lower(chunk), keywords[i])})

\* chunk_scores: the (score, chunk) pairs in the order of chunks.
chunk_scores(question, chunks) ==
    LET keywords == str_split(str_lower(question))
    IN  [i \in DOMAIN chunks |->
            [score |-> keyword_score(keywords, chunks[i]), chunk |-> chunks[i]]]

\* list.sort(reverse=True, key=lambda x: x[0]): a stable sort, so pairs of
\* equal score keep their order.
RECURSIVE InsertByScore(_, _)
InsertByScore(sorted, pair) ==
    IF sorted = <<>> THEN <<pair>>
    ELSE IF Head(sorted).score >= pair.score
         THEN <<Head(sorted)>> \o InsertByScore(Tail(sorted), pair)
         ELSE <<pair>> \o sorted

RECURSIVE SortByScore(_, _)
SortByScore(pairs, sorted) ==
    IF pairs = <<>> THEN sorted
    ELSE SortByScore(Tail(pairs), InsertByScore(sorted, Head(pairs)))

\* Mutant: the sort puts pairs of equal score in reverse order.
sort_reverse_TiesReversed(pairs) ==
    SortByScore([i \in DOMAIN pairs |-> pairs[Len(pairs) + 1 - i]], <<>>)

\* chunk_scores.sort(reverse=True, key=lambda x: x[0])
sort_reverse(pairs) == SortByScore(pairs, <<>>)

\* _find_relevant_chunk(question, chunks): the value returned, as a set
\* (empty for None).
_find_relevant_chunk(question, chunks) ==
    LET ranked == sort_reverse(chunk_scores(question, chunks))
    IN  IF ranked = <<>> THEN {}
        ELSE IF ranked[1].score > 0 THEN {ranked[1].chunk}
        ELSE {}

\* A call of _find_relevant_chunk is about to be made: one per question and
\* chunk list.
InitRank ==
    /\ InitProgram
    /\ \E q \in Questions, c \in ChunkLists :
          call = [fn |-> "_find_relevant_chunk", question |-> q, chunks |-> c,
                  done |-> FALSE, scores |-> <<>>, ranked |-> <<>>, ret |-> {}]

\* The call returns; the scores it ranked by and its sorted chunk_scores
\* are kept for inspection.
FindRelevantChunk ==
    /\ call.fn = "_find_relevant_chunk"
    /\ ~call.done
    /\ call' = [call EXCEPT
                   !.done = TRUE,
                   !.scores = [i \in DOMAIN call.chunks |->
                                  chunk_scores(call.question, call.chunks)[i].score],
                   !.ranked = sort_reverse(chunk_scores(call.question, call.chunks)),
                   !.ret = _find_relevant_chunk(call.question, call.chunks)]
    /\ UNCHANGED <<now, user_requests, calls, in_memory_cache, user_sessions,
                   lastOp, lastPut, nput, cleared, task, nupd>>

NextRank == FindRelevantChunk

SpecRank == InitRank /\ [][NextRank]_vars

(***************************************************************************)
(* Relevance ranker claims (checked under SpecRank)                        *)
(***************************************************************************)
\* The largest of the scores the call ranked by.
TopScore == CHOOSE m \in {call.scores[i] : i \in DOMAIN call.scores} :
                \A i \in DOMAIN call.scores : call.scores[i] <= m

\* C19: for a non-empty list of segments the ranker's result is never
\* absent, whatever the scores: it hands back highest-scoring segments also
\* when every segment scores zero (no minimum-score filter).
C19_NeverAbsentForSegments ==
    (call.done /\ call.chunks # <<>>) =>
        /\ call.ret # {}
        /\ \A c \in call.ret :
              \E i \in DOMAIN call.chunks :
                  call.chunks[i] = c /\ call.scores[i] = TopScore

\* The distinct lowercase words of a text, the score and the bonus the
\* ranker is stated to use.
WordSet(s) == {str_split(str_lower(s))[i] : i \in DOMAIN str_split(str_lower(s))}

OverlapScore(question, segment) == Cardinality(WordSet(question) \cap WordSet(segment))

PhraseBonus(question, segment) ==
    IF str_contains(str_lower(segment), str_lower(question)) THEN 1 ELSE 0

\* C20: the score a segment is ranked by is the number of distinct lowercase
\* question words that are also words of the segment, plus 1 when the
\* lowercased question occurs as a substring of the lowercased segment.
C20_ScoreIsWordOverlapPlusPhrase ==
    call.done =>
        \A i \in DOMAIN call.chunks :
            call.scores[i] = OverlapScore(call.question, call.chunks[i])
                             + PhraseBonus(call.question, call.chunks[i])

\* The pairs in descending score order from score s down, pairs of equal
\* score in the order they have in `pairs`.
RECURSIVE StableDescending(_, _)
StableDescending(pairs, s) ==
    IF s < 0 THEN <<>>
    ELSE SelectSeq(pairs, LAMBDA p : p.score = s) \o StableDescending(pairs, s - 1)

\* The positions of the segments that have the highest score.
TopPositions == {i \in DOMAIN call.scores : call.scores[i] = TopScore}

LiveCount(u, incl) ==
    Cardinality({i \in DOMAIN user_requests[u] :
                    \/ now - user_requests[u][i] < window_minutes
                    \/ incl /\ now - user_requests[u][i] = window_minutes})

\* max(0, n)
AtLeastZero(n) == IF n > 0 THEN n ELSE 0

\* C22: at every instant get_remaining(user) equals max(0, max_requests -
\* the number of the user's recorded timestamps within the trailing window
\* as of that instant), whichever way the window's boundary is read.
C22_RemainingCountsLiveTimestamps ==
    \A u \in Users :
        \E incl \in BOOLEAN :
            get_remaining(u) = AtLeastZero(max_requests - LiveCount(u, incl))

\* Every timestamp stored for user u is at most one window old at instant t.
AllFresh(u, t) ==
    \A i \in DOMAIN user_requests[u] : t - user_requests[u][i] <= window_minutes

\* C23 as stated: in every reachable state every stored timestamp satisfies
\* now - timestamp <= window_minutes.
C23_NoStaleTimestampStored == \A u \in Users : AllFresh(u, now)

\* C23 amended: right after every admission check of a user every timestamp
\* stored for that user satisfies now - timestamp <= window_minutes (indeed
\* < window_minutes): a timestamp that expired while no check was made is
\* still stored until the user's next check, and never past it.
C23_NoStaleTimestampAfterCheck ==
    [][\A u \in Users :
          Len(calls'[u]) > Len(calls[u]) =>
              \A i \in DOMAIN user_requests'[u] :
                  /\ now' - user_requests'[u][i] <= window_minutes
                  /\ now' - user_requests'[u][i] < window_minutes]_vars

\* C23 witness: a user's check found a timestamp older than the window and
\* dropped it; only the timestamp of that check is stored.
C23_Witness ==
    \E u \in Users :
        /\ Len(calls[u]) = 2
        /\ calls[u][1].ok /\ calls[u][2].ok
        /\ calls[u][2].t = now
        /\ now - calls[u][1].t > window_minutes
        /\ user_requests[u] = <<now>>

\* C24: in every reachable state each user's rate window holds at most
\* max_requests timestamps, in non-decreasing order, none later than now.
C24_WindowBoundedAndOrdered ==
    \A u \in Users :
        /\ Len(user_requests[u]) <= max_requests
        /\ \A i, j \in DOMAIN user_requests[u] :
              i < j => user_requests[u][i] <= user_requests[u][j]
        /\ \A i \in DOMAIN user_requests[u] : user_requests[u][i] <= now

\* C24 witness: a window is full with timestamps of two different instants,
\* and a further check of that user was denied.
C24_Witness ==
    \E u \in Users :
        /\ Len(user_requests[u]) = max_requests
        /\ user_requests[u][1] < user_requests[u][max_requests]
        /\ calls[u] # <<>> /\ ~LastCall(u).ok

(***************************************************************************)
(* Per-user isolation (checked under SpecUsers)                            *)
(***************************************************************************)
\* This step is an admission check, or a put, get or delete, for user u.
StepFor(u) ==
    \/ calls'[u] # calls[u]
    \/ /\ calls' = calls
       /\ lastOp'.op \in {"put", "get", "delete"}
       /\ lastOp'.user = u

\* This step leaves the rate window, the cache entry and the rows of user v
\* as they are.
Untouched(v) ==
    /\ user_requests'[v] = user_requests[v]
    /\ (v \in DOMAIN in_memory_cache') = (v \in DOMAIN in_memory_cache)
    /\ v \in DOMAIN in_memory_cache => in_memory_cache'[v] = in_memory_cache[v]
    /\ RowsOf(user_sessions', v) = RowsOf(user_sessions, v)

\* C25: an admission check, put, get or delete for one user leaves the rate
\* window and the session (cache entry and rows) of every other user
\* unchanged, and two users never have the same rate-window key.
C25_OtherUsersUntouched ==
    /\ [][\A u, v \in Users : (u # v /\ StepFor(u)) => Untouched(v)]_vars
    /\ [](\A u, v \in Users : u # v => str_of_int(u) # str_of_int(v))

\* C25 witness: a delete was made for one user while another user has a
\* recorded request, a cached session and a stored row.
C25_Witness ==
    \E u, v \in Users :
        /\ u # v
        /\ lastOp.op = "delete" /\ lastOp.user = u
        /\ user_requests[u] # <<>> /\ user_requests[v] # <<>>
        /\ v \in DOMAIN in_memory_cache
        /\ RowsOf(user_sessions, v) # {}

(***************************************************************************)
(* Session store behaviour (checked under SpecStore)                       *)
(***************************************************************************)
\* This step is a get for user u.
GetStep(u) == lastOp'.op = "get" /\ lastOp'.user = u /\ lastOp'.t = now

C27_SweepRemovesExpiredOnly ==
    /\ [][lastOp'.op = "sweep" =>
            /\ user_sessions' \subseteq user_sessions
            /\ \A r \in user_sessions \ user_sessions' : r.expires_at <= now
            /\ \A r \in user_sessions : r.expires_at > now => r \in user_sessions']_vars
    /\ []((lastOp.op = "sweep" /\ ~lastOp.dbfail) =>
            \A u \in Users : \A p \in lastPut[u] :
                p.expires < now => get_user_data_result(u, now, FALSE) = {})

\* C28: every put whose write succeeds leaves the user's row with updated_at
\* at an instant of the put and expires_at exactly updated_at + TTL (so a
\* second put moves expires_at to the second put's instant plus TTL).
C28_ExpiryIsUpdatePlusTTL ==
    (lastOp.op = "put" /\ ~lastOp.dbfail) =>
        \A r \in RowsOf(user_sessions, lastOp.user) :
            /\ lastOp.t <= r.updated_at /\ r.updated_at <= now
            /\ r.expires_at = r.updated_at + TOKEN_EXPIRY_HOURS

\* ---------------------------------------------------------------------------
\* Non-positive step (src/core/chunking.py, chunk_text)
\* ---------------------------------------------------------------------------

\* The call's overlap is at least its segment size: the step is not positive.
NonPositiveStep == call.overlap >= call.chunk_size

\* C29: a segmenter call whose overlap is at least the segment size is
\* rejected with an error instead of returning a segment list.
\* chunk_text never rejects: it returns [text] for a zero step (and for a
\* text with fewer words than chunk_size) and [] for a negative step.
C29_NonPositiveStepRejected ==
    (call.fn = "chunk_text" /\ call.done /\ NonPositiveStep) => call.raised

\* The call fails inside chunk_text: the text reaches the window loop
\* (non-empty, at least chunk_size words) and the step is zero, for which
\* range() raises ValueError.
InternalFailure ==
    /\ call.text # <<>>
    /\ WordCount >= call.chunk_size
    /\ call.chunk_size - call.overlap = 0

\* C30: chunk_text terminates (its loop runs at most once per word) and
\* returns a list for every text and every integer chunk_size and overlap
\* (overlap = chunk_size and overlap > chunk_size included), never raises to
\* its caller, and answers an internal failure with the one-element list
\* [text].
C30_AlwaysReturnsAList ==
    (call.fn = "chunk_text" /\ call.done) =>
          /\ loop_iterations(call.text, call.chunk_size, call.overlap) <= WordCount
          /\ ~call.raised
          /\ call.ret \in Seq(Seq(Alphabet))
          /\ InternalFailure => call.ret = <<call.text>>

\* A finished call with overlap = chunk_size on a text of at least chunk_size
\* words: the zero step failed inside and [text] came back.
C30_Witness ==
    /\ call.fn = "chunk_text" /\ call.done
    /\ call.chunk_size = 2 /\ call.overlap = 2
    /\ InternalFailure
    /\ ~call.raised
    /\ call.ret = <<call.text>>

(***************************************************************************)
(* core/qa_engine.py: answer_question, the question flow over the chunks   *)
(* of a session.  ask_llm either returns an answer or raises.              *)
(***************************************************************************)
\* What answer_question does for a question and a chunk list: whether it
\* raises ModelError, the kind of text it returns, the number of ask_llm
\* calls and the context put in the prompt (a set, empty when no prompt is
\* built).
AnswerResult(raised, reply, llm_calls, context) ==
    [raised |-> raised, reply |-> reply, llm_calls |-> llm_calls, context |-> context]

\* Mutant: an empty chunk list is answered like a list without a relevant
\* chunk.
answer_question_EmptyAsNotCovered(question, chunks, llm_ok) ==
    LET context == _find_relevant_chunk(question, chunks)
    IN  IF question = <<>> THEN AnswerResult(TRUE, "invalid_question", 0, {})
        ELSE IF context = {} THEN AnswerResult(FALSE, "not_covered", 0, {})
        ELSE IF llm_ok THEN AnswerResult(FALSE, "answer", 1, context)
        ELSE AnswerResult(TRUE, "qa_error", 1, context)

\* answer_question(question, chunks); llm_ok: ask_llm returns.
answer_question(question, chunks, llm_ok) ==
    LET context == _find_relevant_chunk(question, chunks)
    IN  IF question = <<>> THEN AnswerResult(TRUE, "invalid_question", 0, {})
        ELSE IF chunks = <<>> THEN AnswerResult(FALSE, "no_transcript", 0, {})
        ELSE IF context = {} THEN AnswerResult(FALSE, "not_covered", 0, {})
        ELSE IF llm_ok THEN AnswerResult(FALSE, "answer", 1, context)
        ELSE AnswerResult(TRUE, "qa_error", 1, context)

\* A call of answer_question is about to be made: one per question, chunk
\* list and behaviour of ask_llm.
InitAnswer ==
    /\ InitProgram
    /\ \E q \in Questions, c \in ChunkLists, ok \in BOOLEAN :
          call = [fn |-> "answer_question", question |-> q, chunks |-> c,
                  llm_ok |-> ok, done |-> FALSE,
                  ret |-> AnswerResult(FALSE, "none", 0, {})]

\* The call returns or raises.
AnswerQuestion ==
    /\ call.fn = "answer_question"
    /\ ~call.done
    /\ call' = [call EXCEPT
                   !.done = TRUE,
                   !.ret = answer_question(call.question, call.chunks, call.llm_ok)]
    /\ UNCHANGED <<now, user_requests, calls, in_memory_cache, user_sessions,
                   lastOp, lastPut, nput, cleared, task, nupd>>

NextAnswer == AnswerQuestion

SpecAnswer == InitAnswer /\ [][NextAnswer]_vars

(***************************************************************************)
(* Question flow claims (checked under SpecAnswer)                         *)
(***************************************************************************)
\* The call of answer_question has returned or raised.
Answered == call.fn = "answer_question" /\ call.done

\* C31: for a non-empty chunk list and a non-empty question, the question
\* flow calls the generation provider exactly once, with the selected
\* context, also when no chunk shares a word with the question.
\* answer_question returns "This topic is not covered in the video." without
\* calling ask_llm when no chunk has a positive score.
C31_AlwaysConsultsGenerator ==
    (Answered /\ call.question # <<>> /\ call.chunks # <<>>) =>
        /\ call.ret.llm_calls = 1
        /\ call.ret.context # {}
        /\ call.ret.reply \in {"answer", "qa_error"}

\* The call found chunks but none with a positive score.
NoneRelevant ==
    /\ call.question # <<>>
    /\ call.chunks # <<>>
    /\ _find_relevant_chunk(call.question, call.chunks) = {}

\* C32: with an empty chunk list the question flow does not call the
\* generation provider, and what it returns or raises is never what it
\* returns when chunks exist but none is relevant (the "not covered" text).
C32_EmptyChunksDistinctFromNoneRelevant ==
    /\ (Answered /\ call.chunks = <<>>) =>
          /\ call.ret.llm_calls = 0
          /\ call.ret.reply \in {"no_transcript", "invalid_question"}
          /\ call.ret.reply = "no_transcript" <=> call.question # <<>>
    /\ (Answered /\ NoneRelevant) =>
          /\ call.ret.llm_calls = 0
          /\ ~call.ret.raised
          /\ call.ret.reply = "not_covered"

\* A question about a session without chunks was answered with the "no
\* transcript" text, without a call of ask_llm.
C32_Witness ==
    /\ Answered
    /\ call.chunks = <<>>
    /\ call.question # <<>>
    /\ call.ret = AnswerResult(FALSE, "no_transcript", 0, {})

(***************************************************************************)
(* bot/telegram_bot.py: start_bot builds the application with              *)
(* ApplicationBuilder().token(...).build() and registers every handler     *)
(* with the default block=True.  The application then takes the updates    *)
(* from its queue in delivery order and awaits the handler of one update   *)
(* to its end before it takes the next; Spec above leaves that scheduling  *)
(* open and lets handlers overlap at every await.                          *)
(***************************************************************************)
\* Mutant: the application is built with concurrent_updates(True).
concurrent_updates_On == TRUE

\* Application.concurrent_updates: start_bot never sets it, so it has the
\* builder's default.
concurrent_updates == FALSE

\* The application takes the next update from its queue: only when no handler
\* is running, unless it processes updates concurrently.
UpdateFetcher == concurrent_updates \/ \A g \in Handlers : task[g].pc = "idle"

\* The handlers as the application runs them.
NextOrdered ==
    \/ Tick
    \/ \E h \in Handlers, u \in Chats, kind \in MessageKinds :
          UpdateFetcher /\ MessageDenied(h, u, kind)
    \/ \E h \in Handlers, u \in Chats : UpdateFetcher /\ UrlAccepted(h, u)
    \/ \E h \in Handlers : ProcessVideo(h)
    \/ \E h \in Handlers, u \in Chats : UpdateFetcher /\ TranslationRequest(h, u)
    \/ \E h \in Handlers : Translate(h)
    \/ \E h \in Handlers, u \in Chats : UpdateFetcher /\ QaRequest(h, u)
    \/ \E h \in Handlers, u \in Chats : UpdateFetcher /\ SummaryCommand(h, u)
    \/ \E h \in Handlers, u \in Chats : UpdateFetcher /\ ClearCommand(h, u)
    \/ \E h \in Handlers : Reply(h)

SpecOrdered == Init /\ [][NextOrdered]_vars

(***************************************************************************)
(* Per-user ordering (checked under SpecOrdered)                           *)
(***************************************************************************)
\* Handler g still has a session write to make: _handle_youtube_url between
\* its "Processing video..." reply and save_user_data.
SessionWritePending(g) == task[g].pc = "processing"

\* This step starts the handler of a newly delivered update in slot h.
Started(h) == task[h].pc = "idle" /\ task'[h].pc # "idle"

\* C33: the requests of a user are processed in delivery order.  A handler
\* makes its session reads and writes after it has started, so no handler
\* is started for a user while the handler of an earlier message of that
\* user still has a session write to make, and no two handlers of a user
\* are in flight together; a question sent after a video link finds the
\* session that link's handler saved.
C33_PerUserDeliveryOrder ==
    /\ [][\A h, g \in Handlers :
            (Started(h) /\ g # h /\ task[g].user = task'[h].user)
                => ~SessionWritePending(g)]_vars
    /\ [](\A h, g \in Handlers :
            (h # g /\ task[h].pc # "idle" /\ task[g].pc # "idle")
                => task[h].user # task[g].user)

\* A video link was processed and its session saved, and the question sent
\* after it was answered from a session.
C33_Witness ==
    \E h \in Handlers, u \in Chats :
        /\ task[h].kind = "qa" /\ task[h].user = u
        /\ task[h].out = "answer"
        /\ nput = 1 /\ nupd = 2
        /\ u \in DOMAIN in_memory_cache
        /\ in_memory_cache[u] = SessionData(1)

(***************************************************************************)
(* bot/handlers.py: the language of a translation request.  handle_message *)
(* routes a text to _handle_translation_request when its lower-case form   *)
(* starts with "summarize in"; the handler then takes the language from    *)
(* the text with text.split("in")[-1].strip().                             *)
(***************************************************************************)
\* The beginnings of the texts examined: two spellings of the prefix, and
\* one text that is no translation request.
Prefixes ==
    {<<"S", "u", "m", "m", "a", "r", "i", "z", "e", " ", "i", "n">>,
     <<"s", "u", "m", "m", "a", "r", "i", "z", "e", " ", "I", "N">>,
     <<"S", "u", "m", "m", "a", "r", "i", "z", "e", " ", "o", "n">>}

\* What follows the prefix: up to MaxLanguageLen characters.
LanguageAlphabet == {"i", "n", "a", " "}
LanguageTexts == UNION {[1..n -> LanguageAlphabet] : n \in 0..MaxLanguageLen}

\* "summarize in"
SummarizeIn == <<"s", "u", "m", "m", "a", "r", "i", "z", "e", " ", "i", "n">>

\* str.startswith(prefix)
str_startswith(s, prefix) ==
    Len(s) >= Len(prefix) /\ SubSeq(s, 1, Len(prefix)) = prefix

\* str.strip()
RECURSIVE str_lstrip(_)
str_lstrip(s) ==
    IF s # <<>> /\ Head(s) \in Whitespace THEN str_lstrip(Tail(s)) ELSE s

RECURSIVE str_rstrip(_)
str_rstrip(s) ==
    IF s # <<>> /\ s[Len(s)] \in Whitespace
    THEN str_rstrip(SubSeq(s, 1, Len(s) - 1)) ELSE s

str_strip(s) == str_rstrip(str_lstrip(s))

\* str.split(sep) for a non-empty separator: the pieces between the
\* occurrences of sep, found from the left without overlap.
RECURSIVE SplitOn(_, _, _)
SplitOn(s, sep, piece) ==
    IF Len(s) < Len(sep) THEN <<piece \o s>>
    ELSE IF SubSeq(s, 1, Len(sep)) = sep
         THEN <<piece>> \o SplitOn(SubSeq(s, Len(sep) + 1, Len(s)), sep, <<>>)
         ELSE SplitOn(Tail(s), sep, piece \o <<Head(s)>>)

str_split_sep(s, sep) == SplitOn(s, sep, <<>>)

\* handle_message: text.lower().startswith("summarize in")
is_translation_request(text) == str_startswith(str_lower(text), SummarizeIn)

\* is_empty(text): empty or whitespace only
is_empty(text) == str_strip(text) = <<>>

\* _handle_translation_request: language = text.split("in")[-1].strip()
extract_language(text) ==
    LET pieces == str_split_sep(text, <<"i", "n">>)
    IN  str_strip(pieces[Len(pieces)])

\* What _handle_translation_request does with the text for a user who has a
\* session: the "please specify a language" reply, or translate(summary,
\* language).
translation_request(text) ==
    IF is_empty(extract_language(text))
    THEN [reply |-> "no_language", translate_called |-> FALSE, language |-> <<>>]
    ELSE [reply |-> "translating", translate_called |-> TRUE,
          language |-> extract_language(text)]

\* A text message of a user with a session is about to be routed.
InitLanguage ==
    /\ InitProgram
    /\ \E p \in Prefixes, l \in LanguageTexts :
          call = [fn |-> "_handle_translation_request", text |-> p \o l,
                  rest |-> l, done |-> FALSE, routed |-> FALSE,
                  ret |-> [reply |-> "none", translate_called |-> FALSE,
                           language |-> <<>>]]

\* handle_message routes the text to _handle_translation_request, which
\* extracts the language.
TranslationLanguage ==
    /\ call.fn = "_handle_translation_request"
    /\ ~call.done
    /\ is_translation_request(call.text)
    /\ call' = [call EXCEPT !.done = TRUE, !.routed = TRUE,
                            !.ret = translation_request(call.text)]
    /\ UNCHANGED <<now, user_requests, calls, in_memory_cache, user_sessions,
                   lastOp, lastPut, nput, cleared, task, nupd>>

\* handle_message routes any other text to _handle_qa_request.
NotATranslationRequest ==
    /\ call.fn = "_handle_translation_request"
    /\ ~call.done
    /\ ~is_translation_request(call.text)
    /\ call' = [call EXCEPT !.done = TRUE]
    /\ UNCHANGED <<now, user_requests, calls, in_memory_cache, user_sessions,
                   lastOp, lastPut, nput, cleared, task, nupd>>

NextLanguage == TranslationLanguage \/ NotATranslationRequest

SpecLanguage == InitLanguage /\ [][NextLanguage]_vars

(***************************************************************************)
(* Translation language claim (checked under SpecLanguage)                 *)
(***************************************************************************)
\* C34: for every translation request 'Summarize in <language>' the language
\* handed to translate is the whole text after the "summarize in" prefix,
\* trimmed, also when the language name contains the letters "in".
\* The handler splits the text at every "in" and keeps the last piece: of
\* "Summarize in ina" it keeps "a", and it keeps the whole text when the
\* prefix is written "summarize IN".
C34_LanguageIsTextAfterPrefix ==
    (call.fn = "_handle_translation_request" /\ call.done /\ call.routed
        /\ str_strip(call.rest) # <<>>) =>
            /\ call.ret.translate_called
            /\ call.ret.language = str_strip(call.rest)

====
